---- MODULE Spec2Model ----
(* Model of launcher.py: the credential gate (check_api_key), the menu loop *)
(* (main), the two launch strategies (run_with_gui, run_cli) and the        *)
(* top-level KeyboardInterrupt handler.  Strings read from the terminal or  *)
(* the environment are sequences of one-character strings, so that          *)
(* str.strip and str.startswith are computed rather than assumed.           *)
EXTENDS Integers, Sequences, FiniteSets, TLC

VARIABLES pc, env, api_key, gateReturned, platform, fs, found,
          keyLine, keyReads, menuLine, menuReads,
          invoked, children, childStatus, exitStatus, out, fault, interrupted

vars == <<pc, env, api_key, gateReturned, platform, fs, found,
          keyLine, keyReads, menuLine, menuReads,
          invoked, children, childStatus, exitStatus, out, fault, interrupted>>

(* ---------------------------------------------------------------- bounds *)
\* Largest number of rejected lines the model lets each prompt loop see.
MaxAttempts == 2

(* --------------------------------------------------------------- strings *)
Marker == <<"A", "I", "z", "a">>

Whitespace == {" ", "\t"}

RECURSIVE LStrip(_)
LStrip(s) == IF s # <<>> /\ Head(s) \in Whitespace THEN LStrip(Tail(s)) ELSE s

RECURSIVE RStrip(_)
RStrip(s) ==
  IF s # <<>> /\ s[Len(s)] \in Whitespace THEN RStrip(SubSeq(s, 1, Len(s) - 1)) ELSE s

StripLeftOnly(s) == LStrip(s)

Strip(s) == RStrip(LStrip(s))

StartsWith(s, p) == Len(s) >= Len(p) /\ SubSeq(s, 1, Len(p)) = p

\* Python truthiness of the value os.environ.get returns (None or a str).
Truthy(v) == v.present /\ v.value # <<>>

IsValidKeyAnyNonEmpty(k) == k # <<>>

IsValidKey(k) == k # <<>> /\ StartsWith(k, Marker)

One == <<"1">>
Two == <<"2">>
Three == <<"3">>

\* Lines the user may type at either prompt.
Lines ==
  { <<>>, <<" ">>,
    <<"A", "I", "z", "a", "1", "2", "3", "4">>,
    <<" ", "A", "I", "z", "a", "1", "\t">>,
    <<"A", "I", "z", "a">>,
    <<"A", "I", "z">>,
    <<"a", "i", "z", "a", "1">>,
    <<"x", "A", "I", "z", "a">>,
    One, Two, Three,
    <<" ", "1">>, <<"2", " ">>, <<"\t", "3", " ">>,
    <<"4">>, <<"1", "2">>, <<"1", " ", "2">> }

Absent == [present |-> FALSE, value |-> <<>>]

Present(v) == [present |-> TRUE, value |-> v]

\* Contents GEMINI_API_KEY may have when the launcher starts.
EnvValues ==
  { Absent, Present(<<>>),
    Present(<<"A", "I", "z", "a", "9">>),
    Present(<<"f", "o", "o">>),
    Present(<<" ", "A", "I", "z", "a", "9">>) }

(* ------------------------------------------------------------ filesystem *)
VenvDir == ".venv"
BinExe == ".venv/bin/pipedream-gui"
ScriptsExe == ".venv/Scripts/pipedream-gui.exe"
GuiScript == "pytrek-9000.sh"
CliScript == "pytrek_cli.py"

Paths == {VenvDir, BinExe, ScriptsExe, GuiScript, CliScript}

Platforms == {"win32", "linux"}

\* A file below .venv exists only if .venv does.
FileSystems ==
  { f \in SUBSET Paths : (BinExe \in f \/ ScriptsExe \in f) => VenvDir \in f }

Exists(p) == p \in fs

PipedreamExeBinOnly(plat) == BinExe

PipedreamExe(plat) == IF plat = "win32" THEN ScriptsExe ELSE BinExe

GuiCmd(plat) ==
  <<PipedreamExe(plat), "--art-style", "StarTrek sci-fi game, orange monochrome",
    "bash", GuiScript>>

CliCmd == <<"sys.executable", CliScript>>

\* What Popen can do with an argument vector: start the child, or raise.
SpawnOutcomes == {"started", "FileNotFoundError", "PermissionError"}

\* Return codes of a child (negative: killed by that signal).
ChildStatuses == {0, 1, 2, -9}

(* ------------------------------------------------------------ exceptions *)
RaisesCalledProcessErrorNever(rc) == FALSE

\* subprocess.run(..., check=True)
RaisesCalledProcessError(rc) == rc # 0

CatchesEverything(strategy, exc) == TRUE

Catches(strategy, exc) ==
  IF strategy = "gui"
  THEN exc \in {"CalledProcessError", "FileNotFoundError"}
  ELSE exc \in {"CalledProcessError"}

TopLevelCatches(exc) == exc = "KeyboardInterrupt"

ErrorMessage(strategy, exc) ==
  IF strategy = "gui"
  THEN IF exc = "CalledProcessError" THEN "error_running_gui" ELSE "command_not_found"
  ELSE "error_running_cli"

\* sys.exit(status): SystemExit is not a KeyboardInterrupt, so it passes the
\* top-level handler and ends the process with that status.
SysExit(status, msgs) ==
  /\ pc' = "exited"
  /\ exitStatus' = <<status>>
  /\ out' = out \o msgs
  /\ fault' = "none"

\* An exception leaving main(): caught at the top level (farewell, status 0)
\* or unhandled (traceback, status 1).
Unwind(exc, msgs) ==
  IF TopLevelCatches(exc)
  THEN SysExit(0, msgs \o <<"farewell">>)
  ELSE /\ pc' = "exited"
       /\ exitStatus' = <<1>>
       /\ out' = out \o msgs \o <<"traceback">>
       /\ fault' = exc

\* An exception raised by subprocess.run inside a strategy's try block.
RaiseInStrategy(strategy, exc, msgs) ==
  IF Catches(strategy, exc)
  THEN SysExit(1, msgs \o <<ErrorMessage(strategy, exc)>>)
  ELSE Unwind(exc, msgs)

Count(tag) == Cardinality({i \in DOMAIN out : out[i] = tag})

ShowMenu == <<"menu", "choice_prompt">>

(* ------------------------------------------------------------------ Init *)
Init ==
  /\ pc = "start"
  /\ env \in EnvValues
  /\ api_key = Absent
  /\ gateReturned = FALSE
  /\ platform \in Platforms
  /\ fs \in FileSystems
  /\ found = {}
  /\ keyLine = <<>>
  /\ keyReads = 0
  /\ menuLine = <<>>
  /\ menuReads = 0
  /\ invoked = <<>>
  /\ children = <<>>
  /\ childStatus = <<>>
  /\ exitStatus = <<>>
  /\ out = <<>>
  /\ fault = "none"
  /\ interrupted = FALSE

(* -------------------------------------------------------- check_api_key *)
\* main() calls check_api_key(): either the environment already holds a
\* non-empty value (returned as is, menu shown), or the prompt loop starts.
Start ==
  /\ pc = "start"
  /\ IF Truthy(env)
     THEN /\ api_key' = env
          /\ gateReturned' = TRUE
          /\ pc' = "menu"
          /\ out' = out \o ShowMenu
     ELSE /\ api_key' = env
          /\ gateReturned' = FALSE
          /\ pc' = "key_prompt"
          /\ out' = out \o <<"banner", "key_prompt">>
  /\ UNCHANGED <<env, platform, fs, found, keyLine, keyReads, menuLine, menuReads,
                 invoked, children, childStatus, exitStatus, fault, interrupted>>

\* One line read by the credential prompt.
KeyInput(line) ==
  /\ pc = "key_prompt"
  /\ keyLine' = line
  /\ keyReads' = keyReads + 1
  /\ LET k == Strip(line) IN
       IF IsValidKey(k)
       THEN /\ env' = Present(k)
            /\ api_key' = Present(k)
            /\ gateReturned' = TRUE
            /\ pc' = "menu"
            /\ out' = out \o <<"accepted">> \o ShowMenu
       ELSE /\ Count("invalid_key") < MaxAttempts
            /\ env' = env
            /\ api_key' = Present(k)
            /\ gateReturned' = FALSE
            /\ pc' = "key_prompt"
            /\ out' = out \o <<"invalid_key", "key_prompt">>
  /\ UNCHANGED <<platform, fs, found, menuLine, menuReads, invoked, children,
                 childStatus, exitStatus, fault, interrupted>>

(* ------------------------------------------------------ launch strategies *)
Spawn(strategy, cmd, msgs) ==
  \E outcome \in SpawnOutcomes :
     IF outcome = "started"
     THEN /\ children' = Append(children, [strategy |-> strategy, cmd |-> cmd, environ |-> env])
          /\ pc' = "waiting"
          /\ out' = out \o msgs
          /\ UNCHANGED <<exitStatus, fault>>
     ELSE /\ children' = children
          /\ RaiseInStrategy(strategy, outcome, msgs)

RunWithGui ==
  IF ~Exists(VenvDir)
  THEN /\ found' = found
       /\ children' = children
       /\ SysExit(1, <<"launching_gui", "venv_missing">>)
  ELSE IF ~Exists(PipedreamExe(platform))
  THEN /\ found' = found \cup {VenvDir}
       /\ children' = children
       /\ SysExit(1, <<"launching_gui", "exe_missing">>)
  ELSE /\ found' = found \cup {VenvDir, PipedreamExe(platform)}
       /\ Spawn("gui", GuiCmd(platform), <<"launching_gui">>)

RunCli ==
  IF ~Exists(CliScript)
  THEN /\ found' = found
       /\ children' = children
       /\ SysExit(1, <<"launching_cli", "cli_missing">>)
  ELSE /\ found' = found \cup {CliScript}
       /\ Spawn("cli", CliCmd, <<"launching_cli">>)

(* ------------------------------------------------------------------ main *)
DispatchElseExit(choice) ==
  IF choice = One THEN "gui" ELSE IF choice = Two THEN "cli" ELSE "exit"

DispatchThreeCli(choice) ==
  IF choice = One THEN "gui"
  ELSE IF choice \in {Two, Three} THEN "cli"
  ELSE "invalid"

Dispatch(choice) ==
  IF choice = One THEN "gui"
  ELSE IF choice = Two THEN "cli"
  ELSE IF choice = Three THEN "exit"
  ELSE "invalid"

\* One line read by the menu prompt, and the branch of main it selects.
MenuInput(line) ==
  /\ pc = "menu"
  /\ menuLine' = line
  /\ menuReads' = menuReads + 1
  /\ LET branch == Dispatch(Strip(line)) IN
       CASE branch = "gui" ->
              /\ invoked' = Append(invoked, "gui")
              /\ RunWithGui
         [] branch = "cli" ->
              /\ invoked' = Append(invoked, "cli")
              /\ RunCli
         [] branch = "exit" ->
              /\ SysExit(0, <<"farewell">>)
              /\ UNCHANGED <<invoked, children, found>>
         [] OTHER ->
              /\ Count("invalid_choice") < MaxAttempts
              /\ pc' = "menu"
              /\ out' = out \o <<"invalid_choice">> \o ShowMenu
              /\ UNCHANGED <<invoked, children, found, exitStatus, fault>>
  /\ UNCHANGED <<env, api_key, gateReturned, platform, fs, keyLine, keyReads,
                 childStatus, interrupted>>

AfterStrategyContinue == "continue"

\* The statement after a strategy call in main's loop.
AfterStrategy == "break"

\* The child ends with return code rc while the parent waits in subprocess.run.
ChildExit(rc) ==
  /\ pc = "waiting"
  /\ childStatus' = <<rc>>
  /\ LET strategy == invoked[Len(invoked)] IN
       IF RaisesCalledProcessError(rc)
       THEN RaiseInStrategy(strategy, "CalledProcessError", <<>>)
       ELSE IF AfterStrategy = "break"
            THEN SysExit(0, <<>>)
            ELSE /\ Count("menu") <= 2 * MaxAttempts
                 /\ pc' = "menu"
                 /\ out' = out \o ShowMenu
                 /\ UNCHANGED <<exitStatus, fault>>
  /\ UNCHANGED <<env, api_key, gateReturned, platform, fs, found, keyLine, keyReads,
                 menuLine, menuReads, invoked, children, interrupted>>

(* ------------------------------------------------- suspension-point events *)
\* End of input at a prompt: input() raises EOFError, which nothing catches.
EndOfInput ==
  /\ pc \in {"key_prompt", "menu"}
  /\ Unwind("EOFError", <<>>)
  /\ UNCHANGED <<env, api_key, gateReturned, platform, fs, found, keyLine, keyReads,
                 menuLine, menuReads, invoked, children, childStatus, interrupted>>

\* Ctrl+C at a prompt or while waiting for the child.  While waiting,
\* subprocess.run kills the child, reaps it and re-raises; the strategy's
\* except clauses are consulted before the top-level handler.
Interrupt ==
  /\ pc \in {"key_prompt", "menu", "waiting"}
  /\ interrupted' = TRUE
  /\ IF pc = "waiting"
     THEN /\ \E rc \in ChildStatuses : childStatus' = <<rc>>
          /\ RaiseInStrategy(invoked[Len(invoked)], "KeyboardInterrupt", <<>>)
     ELSE /\ childStatus' = childStatus
          /\ Unwind("KeyboardInterrupt", <<>>)
  /\ UNCHANGED <<env, api_key, gateReturned, platform, fs, found, keyLine, keyReads,
                 menuLine, menuReads, invoked, children>>

Next ==
  \/ Start
  \/ \E line \in Lines : KeyInput(line)
  \/ \E line \in Lines : MenuInput(line)
  \/ \E rc \in ChildStatuses : ChildExit(rc)
  \/ EndOfInput
  \/ Interrupt

Spec == Init /\ [][Next]_vars

(* ---------------------------------------------------------------- claims *)
Last(q) == q[Len(q)]

NonZeroExit == exitStatus # <<>> /\ exitStatus[1] # 0

PaddedKey == <<" ", "A", "I", "z", "a", "1", "\t">>

\* What the gate looks like after it rejected the latest line.
Rejected ==
  /\ ~Truthy(env)
  /\ ~gateReturned
  /\ Count("menu") = 0
  /\ Count("key_prompt") = keyReads + 1
  /\ pc \in {"key_prompt", "exited"}

\* C1 as stated: a line read by the credential prompt that is non-empty and
\* does not itself start with "AIza" is rejected (variable not set, prompt
\* issued again, menu not reached).
C1_RawLineRejected ==
  (keyReads > 0 /\ keyLine # <<>> /\ ~StartsWith(keyLine, Marker)) => Rejected

\* C1 amended: a line whose whitespace-trimmed value is non-empty and does not
\* start with "AIza" is rejected, however many such lines came before.
C1_TrimmedLineRejected ==
  (keyReads > 0 /\ Strip(keyLine) # <<>> /\ ~StartsWith(Strip(keyLine), Marker))
    => Rejected

C1_Witness ==
  /\ keyReads = 2
  /\ Count("invalid_key") = 2
  /\ keyLine = <<"x", "A", "I", "z", "a">>
  /\ pc = "key_prompt"

\* C2: a line whose trimmed value starts with "AIza" is accepted on that
\* attempt, and from then on GEMINI_API_KEY and the returned value equal the
\* trimmed line.
C2_TrimmedKeyAccepted ==
  (keyReads > 0 /\ StartsWith(Strip(keyLine), Marker)) =>
    /\ env = Present(Strip(keyLine))
    /\ api_key = Present(Strip(keyLine))
    /\ gateReturned
    /\ Count("accepted") = 1
    /\ Count("key_prompt") = keyReads
    /\ pc # "key_prompt"
    /\ (keyLine = PaddedKey => env.value = <<"A", "I", "z", "a", "1">>)

C2_Witness ==
  /\ keyReads = 1
  /\ keyLine = PaddedKey
  /\ env = Present(<<"A", "I", "z", "a", "1">>)
  /\ pc = "menu"

\* What the menu loop looks like after it refused the latest line.
StillAwaitingChoice ==
  /\ pc = "menu"
  /\ invoked = <<>>
  /\ children = <<>>
  /\ exitStatus = <<>>
  /\ Count("menu") = menuReads + 1

\* C3 as stated: any menu line other than "1", "2", "3" redisplays the menu
\* and neither launches nor exits.
C3_RawLineRedisplays ==
  (menuReads > 0 /\ menuLine \notin {One, Two, Three}
     /\ ~interrupted /\ fault = "none") => StillAwaitingChoice

\* C3 amended: any menu line whose trimmed value is other than "1", "2", "3"
\* redisplays the menu and neither launches nor exits.
C3_TrimmedLineRedisplays ==
  (menuReads > 0 /\ Strip(menuLine) \notin {One, Two, Three}
     /\ ~interrupted /\ fault = "none") => StillAwaitingChoice

C3_Witness ==
  /\ menuReads = 2
  /\ Count("invalid_choice") = 2
  /\ menuLine = <<"1", "2">>
  /\ pc = "menu"

\* C4: menu input "3" prints the farewell and exits with status 0, no launch
\* strategy having been invoked and no child spawned.
C4_ThreeExitsZero ==
  (menuReads > 0 /\ menuLine = Three) =>
    /\ pc = "exited"
    /\ exitStatus = <<0>>
    /\ Last(out) = "farewell"
    /\ fault = "none"
    /\ invoked = <<>>
    /\ children = <<>>

C4_Witness ==
  /\ menuReads = 2
  /\ Count("invalid_choice") = 1
  /\ menuLine = Three
  /\ pc = "exited"

\* C5: a KeyboardInterrupt at a prompt or during the wait for a child ends the
\* process with the farewell and status 0, never with a fault.
C5_InterruptExitsZero ==
  interrupted =>
    /\ pc = "exited"
    /\ exitStatus = <<0>>
    /\ Last(out) = "farewell"
    /\ fault = "none"

C5_Witness ==
  /\ interrupted
  /\ Len(children) = 1
  /\ children[1].strategy = "gui"
  /\ pc = "exited"

\* C6: menu input "1" with .venv absent, or with the platform's pipedream-gui
\* executable absent, prints a diagnostic and exits non-zero without a spawn.
C6_MissingSandboxFailsFast ==
  (invoked = <<"gui">>
     /\ \/ VenvDir \notin fs
        \/ platform = "win32" /\ ScriptsExe \notin fs
        \/ platform # "win32" /\ BinExe \notin fs) =>
    /\ pc = "exited"
    /\ NonZeroExit
    /\ children = <<>>
    /\ Last(out) \in {"venv_missing", "exe_missing"}

C6_Witness ==
  /\ invoked = <<"gui">>
  /\ platform = "win32"
  /\ {VenvDir, BinExe} \subseteq fs
  /\ ScriptsExe \notin fs
  /\ Last(out) = "exe_missing"

\* How the parent's status follows the child's.
StatusFollowsChild ==
  /\ childStatus[1] = 0 => exitStatus = <<0>>
  /\ childStatus[1] # 0 =>
       /\ NonZeroExit
       /\ Last(out) \in {"error_running_gui", "error_running_cli"}

\* C7 as stated: once a child was spawned, the parent exits 0 if the child
\* exits 0 and non-zero, with a diagnostic, if the child exits non-zero.
C7_StatusFollowsChild ==
  (children # <<>> /\ childStatus # <<>>) => StatusFollowsChild

\* C7 amended: the same, when no KeyboardInterrupt cut the wait short.
C7_StatusFollowsChildUninterrupted ==
  (children # <<>> /\ childStatus # <<>> /\ ~interrupted) => StatusFollowsChild

C7_Witness ==
  /\ Len(children) = 1
  /\ children[1].strategy = "cli"
  /\ childStatus = <<2>>
  /\ exitStatus = <<1>>
  /\ ~interrupted

\* C8: once check_api_key has returned, GEMINI_API_KEY is non-empty and starts
\* with "AIza", whatever the environment held at start; so does the value
\* every child inherits.
C8_CredentialInvariant ==
  /\ gateReturned => (Truthy(env) /\ StartsWith(env.value, Marker))
  /\ \A i \in DOMAIN children :
       Truthy(children[i].environ) /\ StartsWith(children[i].environ.value, Marker)

\* C9: the gate returns before the first menu prompt, at most one strategy is
\* invoked and at most one child spawned, and once a strategy was invoked no
\* further menu prompt is issued; a strategy that returned leaves the process
\* terminated.
C9_OneLaunchPerRun ==
  /\ [](/\ Count("menu") > 0 => gateReturned
        /\ Len(invoked) <= 1
        /\ Len(children) <= 1
        /\ (childStatus = <<0>> /\ ~interrupted) => pc = "exited")
  /\ [][Len(invoked) >= 1 =>
          /\ Count("menu")' = Count("menu")
          /\ children' = children]_vars

C9_Witness ==
  /\ invoked = <<"gui">>
  /\ Len(children) = 1
  /\ childStatus = <<0>>
  /\ exitStatus = <<0>>
  /\ ~interrupted

\* C10: no child is spawned by run_with_gui unless .venv, the executable and
\* pytrek-9000.sh were each found to exist, and none by run_cli unless
\* pytrek_cli.py was.
C10_DependenciesChecked ==
  \A i \in DOMAIN children :
     IF children[i].strategy = "gui"
     THEN {VenvDir, children[i].cmd[1], GuiScript} \subseteq found
     ELSE CliScript \in found

====
